---- MODULE Spec2Model ----
(***************************************************************************)
(* Undirected graphs of week01_undirectedgraphs.py: the adjacency-list     *)
(* class Graph, its subclass AdjMatrixGraph (boolean matrix), and the      *)
(* edge-list loader read_array_of_edges / load.                            *)
(*                                                                         *)
(* A graph object is a record [V, E, adj].  For Graph, adj maps each index *)
(* 0..V-1 to the sequence of neighbours appended so far; for               *)
(* AdjMatrixGraph, adj maps each index to a row 0..V-1 -> BOOLEAN.         *)
(* Every method returns a record [g |-> object after the call,             *)
(* err |-> the exception raised, or NoErr].                                *)
(***************************************************************************)
EXTENDS Integers, Sequences, FiniteSets, TLC

VARIABLES
    pc,        \* driver position: "new" before the constructors ran, "live" after
    g,         \* the Graph object (list variant)
    gLive,     \* TRUE when Graph(V) returned an object
    gErr,      \* exception of the last call on the list variant
    gCalls,    \* history: the add_edge calls that completed on g, in order
    m,         \* the AdjMatrixGraph object (matrix variant)
    mLive,     \* TRUE when AdjMatrixGraph(V) returned an object
    mErr,      \* exception of the last call on the matrix variant
    mCalls,    \* history: the add_edge calls that completed on m, in order
    lastOp,    \* history: name of the last operation the driver called
    lastArgs,  \* history: its arguments
    nCalls,    \* history: number of add_edge calls issued (completed or not)
    file,      \* loader: the text source, a sequence of lines of tokens
    decl,      \* loader history: the numbers the source was written from
    cls,       \* loader: the class load was called on
    lpc,       \* loader: position inside load / read_array_of_edges
    rdV,       \* loader: local V of read_array_of_edges
    rdE,       \* loader: local E of read_array_of_edges
    edges,     \* loader: local edges of read_array_of_edges
    lineNo,    \* loader: number of lines consumed by f.readline()
    lg,        \* loader: local g of load
    idx,       \* loader: number of edges load has passed to add_edge
    lerr       \* loader: exception load ended with, or NoErr

vars == <<pc, g, gLive, gErr, gCalls, m, mLive, mErr, mCalls, lastOp, lastArgs,
          nCalls, file, decl, cls, lpc, rdV, rdE, edges, lineNo, lg, idx, lerr>>

graphVars == <<pc, g, gLive, gErr, gCalls, m, mLive, mErr, mCalls, lastOp,
               lastArgs, nCalls>>

loadVars == <<file, decl, cls, lpc, rdV, rdE, edges, lineNo, lg, idx, lerr>>

(***************************************************************************)
(* Bounds.                                                                 *)
(***************************************************************************)
MaxV == 3          \* largest vertex count the driver constructs
MaxCalls == 3      \* add_edge calls the driver issues
MaxLoadV == 1      \* largest endpoint written into a source
MaxEdges == 2      \* most edge lines in a source
BigV == 10         \* a two-digit vertex count written into a source

NoErr == "ok"
ValueError == "ValueError"
IndexError == "IndexError"

ListCls == "Graph"
MatrixCls == "AdjMatrixGraph"

Range(n) == 0 .. (n - 1)

(***************************************************************************)
(* Constructors.                                                           *)
(***************************************************************************)
\* Graph.__init__: V stored as given, E = 0, one empty list per
\* iteration of range(V) (none when V <= 0); never raises.
GraphInit(V) ==
    [g |-> [V |-> V, E |-> 0, adj |-> [i \in Range(V) |-> <<>>]],
     err |-> NoErr]

\* mutant: the matrix allocated with np.ones instead of np.zeros
MatrixInit_ones(V) ==
    LET base == GraphInit(V).g IN
    IF V < 0
    THEN [g |-> base, err |-> ValueError]
    ELSE [g |-> [base EXCEPT !.adj = [i \in Range(V) |-> [j \in Range(V) |-> TRUE]]],
          err |-> NoErr]

\* AdjMatrixGraph.__init__: super().__init__(V), then np.zeros((V, V),
\* dtype=bool), which raises ValueError on a negative dimension.
MatrixInit(V) ==
    LET base == GraphInit(V).g IN
    IF V < 0
    THEN [g |-> base, err |-> ValueError]
    ELSE [g |-> [base EXCEPT !.adj = [i \in Range(V) |-> [j \in Range(V) |-> FALSE]]],
          err |-> NoErr]

Construct(c, V) == IF c = MatrixCls THEN MatrixInit(V) ELSE GraphInit(V)

(***************************************************************************)
(* Indexing a Python list / numpy axis of length n with i: negative i      *)
(* counts from the end, anything outside [-n, n) raises IndexError.        *)
(***************************************************************************)
IndexOk(n, i) == (-n <= i) /\ (i < n)
Index(n, i) == IF i < 0 THEN n + i ELSE i

\* Graph.adj setter: self._adj[edge[0]].append(edge[1])
ListAdjSet(gr, edge) ==
    LET n == Cardinality(DOMAIN gr.adj) IN
    IF ~IndexOk(n, edge[1])
    THEN [g |-> gr, err |-> IndexError]
    ELSE [g |-> [gr EXCEPT !.adj[Index(n, edge[1])] = Append(@, edge[2])],
          err |-> NoErr]

\* AdjMatrixGraph.adj setter: self._adj[edge[0]][edge[1]] = True
MatrixAdjSet(gr, edge) ==
    LET n == Cardinality(DOMAIN gr.adj) IN
    IF ~IndexOk(n, edge[1]) \/ ~IndexOk(n, edge[2])
    THEN [g |-> gr, err |-> IndexError]
    ELSE [g |-> [gr EXCEPT !.adj[Index(n, edge[1])][Index(n, edge[2])] = TRUE],
          err |-> NoErr]

\* self.adj = edge dispatches on the class of self
AdjSet(c, gr, edge) ==
    IF c = MatrixCls THEN MatrixAdjSet(gr, edge) ELSE ListAdjSet(gr, edge)

\* mutant: the upper bound tested with > instead of >=
validate_vertex_offByOne(gr, v) ==
    IF v < 0 \/ v > gr.V THEN ValueError ELSE NoErr

\* Graph.validate_vertex
validate_vertex(gr, v) ==
    IF v < 0 \/ v >= gr.V THEN ValueError ELSE NoErr

\* mutant: E incremented inside the v != w branch only
add_edge_countNonLoops(c, gr, v, w) ==
    IF validate_vertex(gr, v) # NoErr THEN [g |-> gr, err |-> validate_vertex(gr, v)]
    ELSE IF validate_vertex(gr, w) # NoErr THEN [g |-> gr, err |-> validate_vertex(gr, w)]
    ELSE LET g1 == IF v # w THEN [gr EXCEPT !.E = @ + 1] ELSE gr
             r1 == IF v # w THEN AdjSet(c, g1, <<w, v>>) ELSE [g |-> g1, err |-> NoErr]
         IN  IF r1.err # NoErr THEN r1 ELSE AdjSet(c, r1.g, <<v, w>>)

\* mutant: the v != w test dropped, a self-loop is stored twice
add_edge_loopTwice(c, gr, v, w) ==
    IF validate_vertex(gr, v) # NoErr THEN [g |-> gr, err |-> validate_vertex(gr, v)]
    ELSE IF validate_vertex(gr, w) # NoErr THEN [g |-> gr, err |-> validate_vertex(gr, w)]
    ELSE LET g1 == [gr EXCEPT !.E = @ + 1]
             r1 == AdjSet(c, g1, <<w, v>>)
         IN  IF r1.err # NoErr THEN r1 ELSE AdjSet(c, r1.g, <<v, w>>)

\* mutant: the symmetric insertion self.adj = (w, v) left out
add_edge_oneSided(c, gr, v, w) ==
    IF validate_vertex(gr, v) # NoErr THEN [g |-> gr, err |-> validate_vertex(gr, v)]
    ELSE IF validate_vertex(gr, w) # NoErr THEN [g |-> gr, err |-> validate_vertex(gr, w)]
    ELSE AdjSet(c, [gr EXCEPT !.E = @ + 1], <<v, w>>)

\* Graph.add_edge (inherited unchanged by AdjMatrixGraph)
add_edge(c, gr, v, w) ==
    IF validate_vertex(gr, v) # NoErr THEN [g |-> gr, err |-> validate_vertex(gr, v)]
    ELSE IF validate_vertex(gr, w) # NoErr THEN [g |-> gr, err |-> validate_vertex(gr, w)]
    ELSE LET g1 == [gr EXCEPT !.E = @ + 1]
             r1 == IF v # w THEN AdjSet(c, g1, <<w, v>>) ELSE [g |-> g1, err |-> NoErr]
         IN  IF r1.err # NoErr THEN r1 ELSE AdjSet(c, r1.g, <<v, w>>)

(***************************************************************************)
(* Queries.                                                                *)
(***************************************************************************)
\* Graph.degree: validate_vertex(v), then len(self.adj[v])
ListDegree(gr, v) ==
    IF validate_vertex(gr, v) # NoErr
    THEN [val |-> 0, err |-> validate_vertex(gr, v)]
    ELSE [val |-> Len(gr.adj[v]), err |-> NoErr]

\* AdjMatrixGraph.degree: validate_vertex(v), then self.adj[v].sum()
RECURSIVE RowSum(_, _)
RowSum(row, n) ==
    IF n = 0 THEN 0 ELSE RowSum(row, n - 1) + (IF row[n - 1] THEN 1 ELSE 0)

\* mutant: the diagonal cell left out of the row sum
MatrixDegree_offDiagonal(gr, v) ==
    IF validate_vertex(gr, v) # NoErr
    THEN [val |-> 0, err |-> validate_vertex(gr, v)]
    ELSE [val |-> RowSum(gr.adj[v], Cardinality(DOMAIN gr.adj[v]))
                      - (IF gr.adj[v][v] THEN 1 ELSE 0),
          err |-> NoErr]

MatrixDegree(gr, v) ==
    IF validate_vertex(gr, v) # NoErr
    THEN [val |-> 0, err |-> validate_vertex(gr, v)]
    ELSE [val |-> RowSum(gr.adj[v], Cardinality(DOMAIN gr.adj[v])), err |-> NoErr]

degree(c, gr, v) == IF c = MatrixCls THEN MatrixDegree(gr, v) ELSE ListDegree(gr, v)

\* Graph.max_degree (inherited): max = 0; for v in range(V): keep the larger
RECURSIVE MaxDegreeLoop(_, _, _, _)
MaxDegreeLoop(c, gr, v, max) ==
    IF v >= gr.V THEN max
    ELSE LET d == degree(c, gr, v).val IN
         MaxDegreeLoop(c, gr, v + 1, IF d > max THEN d ELSE max)

\* mutant: the scan starts at vertex 1, range(1, V)
max_degree_fromOne(c, gr) == MaxDegreeLoop(c, gr, 1, 0)

max_degree(c, gr) == MaxDegreeLoop(c, gr, 0, 0)

\* Graph.self_loops: for v in range(V): for w in adj[v]: count v == w
RECURSIVE CountEq(_, _)
CountEq(s, x) ==
    IF s = <<>> THEN 0 ELSE (IF Head(s) = x THEN 1 ELSE 0) + CountEq(Tail(s), x)

RECURSIVE ListSelfLoopsFrom(_, _)
ListSelfLoopsFrom(gr, v) ==
    IF v >= gr.V THEN 0 ELSE CountEq(gr.adj[v], v) + ListSelfLoopsFrom(gr, v + 1)

\* mutant: counts the vertices that occur in their own list, each once
ListSelfLoops_distinct(gr) ==
    Cardinality({v \in Range(gr.V) : CountEq(gr.adj[v], v) > 0})

ListSelfLoops(gr) == ListSelfLoopsFrom(gr, 0)

\* AdjMatrixGraph.self_loops: for v in range(V): count adj[v][v]
RECURSIVE MatrixSelfLoopsFrom(_, _)
MatrixSelfLoopsFrom(gr, v) ==
    IF v >= gr.V THEN 0
    ELSE (IF gr.adj[v][v] THEN 1 ELSE 0) + MatrixSelfLoopsFrom(gr, v + 1)

MatrixSelfLoops(gr) == MatrixSelfLoopsFrom(gr, 0)

(***************************************************************************)
(* Driver of the two variants: both are constructed with the same vertex   *)
(* count and receive the same add_edge calls.                              *)
(***************************************************************************)
NoGraph == [V |-> 0, E |-> 0, adj |-> <<>>]

LoadIdle ==
    /\ file = <<>> /\ decl = <<>> /\ cls = ListCls /\ lpc = "idle"
    /\ rdV = 0 /\ rdE = 0 /\ edges = <<>> /\ lineNo = 0
    /\ lg = NoGraph /\ idx = 0 /\ lerr = NoErr

Init ==
    /\ pc = "new"
    /\ g = NoGraph /\ gLive = FALSE /\ gErr = NoErr /\ gCalls = <<>>
    /\ m = NoGraph /\ mLive = FALSE /\ mErr = NoErr /\ mCalls = <<>>
    /\ lastOp = "none" /\ lastArgs = <<>> /\ nCalls = 0
    /\ LoadIdle

\* Graph(V) and AdjMatrixGraph(V)
New(V) ==
    /\ pc = "new"
    /\ pc' = "live"
    /\ g' = GraphInit(V).g
    /\ gErr' = GraphInit(V).err
    /\ gLive' = (GraphInit(V).err = NoErr)
    /\ m' = IF MatrixInit(V).err = NoErr THEN MatrixInit(V).g ELSE NoGraph
    /\ mErr' = MatrixInit(V).err
    /\ mLive' = (MatrixInit(V).err = NoErr)
    /\ lastOp' = "new" /\ lastArgs' = <<V>>
    /\ UNCHANGED <<gCalls, mCalls, nCalls>>
    /\ UNCHANGED loadVars

\* g.add_edge(v, w) and m.add_edge(v, w) on every live object
AddEdge(v, w) ==
    /\ pc = "live"
    /\ nCalls < MaxCalls
    /\ nCalls' = nCalls + 1
    /\ lastOp' = "add_edge" /\ lastArgs' = <<v, w>>
    /\ IF gLive
       THEN LET r == add_edge(ListCls, g, v, w) IN
            /\ g' = r.g
            /\ gErr' = r.err
            /\ gCalls' = IF r.err = NoErr THEN Append(gCalls, <<v, w>>) ELSE gCalls
       ELSE UNCHANGED <<g, gErr, gCalls>>
    /\ IF mLive
       THEN LET r == add_edge(MatrixCls, m, v, w) IN
            /\ m' = r.g
            /\ mErr' = r.err
            /\ mCalls' = IF r.err = NoErr THEN Append(mCalls, <<v, w>>) ELSE mCalls
       ELSE UNCHANGED <<m, mErr, mCalls>>
    /\ UNCHANGED <<pc, gLive, mLive>>
    /\ UNCHANGED loadVars

Next ==
    \/ \E V \in -1 .. MaxV : New(V)
    \/ \E v \in -1 .. MaxV, w \in -1 .. MaxV : AddEdge(v, w)

Spec == Init /\ [][Next]_vars

(***************************************************************************)
(* The edge-list source.  A source is a sequence of lines, a line the       *)
(* sequence of its whitespace-separated tokens, a token a sequence of       *)
(* characters.  Reading past the last line gives the empty line.            *)
(***************************************************************************)
Digits == <<"0", "1", "2", "3", "4", "5", "6", "7", "8", "9">>

IsDigit(ch) == \E i \in DOMAIN Digits : Digits[i] = ch
DigitVal(ch) == (CHOOSE i \in DOMAIN Digits : Digits[i] = ch) - 1

RECURSIVE DecVal(_)
DecVal(s) ==
    IF s = <<>> THEN 0
    ELSE 10 * DecVal(SubSeq(s, 1, Len(s) - 1)) + DigitVal(s[Len(s)])

\* int(token): an optional sign, then one or more decimal digits
ParseInt(tok) ==
    LET signed == tok # <<>> /\ Head(tok) \in {"-", "+"}
        body == IF signed THEN Tail(tok) ELSE tok
    IN  IF body = <<>> \/ \E i \in DOMAIN body : ~IsDigit(body[i])
        THEN [val |-> 0, err |-> ValueError]
        ELSE [val |-> IF signed /\ Head(tok) = "-" THEN 0 - DecVal(body) ELSE DecVal(body),
              err |-> NoErr]

\* int(f.readline()): the whole line must be one integer token
ParseIntLine(line) ==
    IF Len(line) # 1 THEN [val |-> 0, err |-> ValueError] ELSE ParseInt(line[1])

\* v, w = map(int, f.readline().split()): exactly two integer tokens
ParseEdgeLine(line) ==
    IF Len(line) # 2 THEN [val |-> <<>>, err |-> ValueError]
    ELSE IF ParseInt(line[1]).err # NoErr \/ ParseInt(line[2]).err # NoErr
    THEN [val |-> <<>>, err |-> ValueError]
    ELSE [val |-> <<ParseInt(line[1]).val, ParseInt(line[2]).val>>, err |-> NoErr]

\* f.readline() after n lines were consumed
ReadLine(f, n) == IF n < Len(f) THEN f[n + 1] ELSE <<>>

\* decimal text of an integer, as the sources are written
RECURSIVE NatStr(_)
NatStr(n) ==
    IF n < 10 THEN <<Digits[n + 1]>>
    ELSE NatStr(n \div 10) \o <<Digits[(n % 10) + 1]>>

ToStr(n) == IF n < 0 THEN <<"-">> \o NatStr(0 - n) ELSE NatStr(n)

\* the source holding V, E and the edge lines es: "V", "E", then "v w" lines
WriteSource(V, E, es) ==
    <<(<<ToStr(V)>>), (<<ToStr(E)>>)>>
        \o [i \in DOMAIN es |-> <<ToStr(es[i][1]), ToStr(es[i][2])>>]

(***************************************************************************)
(* load(filename): read_array_of_edges, then cls(V), then add_edge for     *)
(* every parsed edge, one step per statement executed.                     *)
(***************************************************************************)
GraphIdle ==
    /\ pc = "new"
    /\ g = NoGraph /\ gLive = FALSE /\ gErr = NoErr /\ gCalls = <<>>
    /\ m = NoGraph /\ mLive = FALSE /\ mErr = NoErr /\ mCalls = <<>>
    /\ lastOp = "none" /\ lastArgs = <<>> /\ nCalls = 0

SourceVs == (-1 .. MaxLoadV) \cup {BigV}
SourceEnds == -1 .. MaxLoadV
SourceEdges == SourceEnds \X SourceEnds
EdgeLists(n) == [1 .. n -> SourceEdges]

LoadInit ==
    /\ GraphIdle
    /\ \E V \in SourceVs, E \in -1 .. MaxEdges :
         \E n \in {E - 1, E, E + 1} \cap (0 .. MaxEdges) :
           \E es \in EdgeLists(n) :
             /\ decl = [V |-> V, E |-> E, edges |-> es]
             /\ file = WriteSource(V, E, es)
    /\ cls \in {ListCls, MatrixCls}
    /\ lpc = "readV"
    /\ rdV = 0 /\ rdE = 0 /\ edges = <<>> /\ lineNo = 0
    /\ lg = NoGraph /\ idx = 0 /\ lerr = NoErr

\* mutant: the test V < 0 left out
ReadV_noCheck ==
    /\ lpc = "readV"
    /\ LET r == ParseIntLine(ReadLine(file, lineNo)) IN
       /\ lineNo' = lineNo + 1
       /\ IF r.err # NoErr
          THEN /\ lpc' = "raised" /\ lerr' = ValueError /\ rdV' = rdV
          ELSE /\ lpc' = "readE" /\ lerr' = lerr /\ rdV' = r.val
    /\ UNCHANGED <<file, decl, cls, rdE, edges, lg, idx>>
    /\ UNCHANGED graphVars

\* V = int(f.readline()); if V < 0: raise ValueError
ReadV ==
    /\ lpc = "readV"
    /\ LET r == ParseIntLine(ReadLine(file, lineNo)) IN
       /\ lineNo' = lineNo + 1
       /\ IF r.err # NoErr \/ r.val < 0
          THEN /\ lpc' = "raised" /\ lerr' = ValueError /\ rdV' = rdV
          ELSE /\ lpc' = "readE" /\ lerr' = lerr /\ rdV' = r.val
    /\ UNCHANGED <<file, decl, cls, rdE, edges, lg, idx>>
    /\ UNCHANGED graphVars

\* E = int(f.readline()); if E < 0: raise ValueError
ReadE ==
    /\ lpc = "readE"
    /\ LET r == ParseIntLine(ReadLine(file, lineNo)) IN
       /\ lineNo' = lineNo + 1
       /\ IF r.err # NoErr \/ r.val < 0
          THEN /\ lpc' = "raised" /\ lerr' = ValueError /\ rdE' = rdE
          ELSE /\ lpc' = "readEdges" /\ lerr' = lerr /\ rdE' = r.val
    /\ UNCHANGED <<file, decl, cls, rdV, edges, lg, idx>>
    /\ UNCHANGED graphVars

\* one iteration of: for _ in range(E): v, w = ...; edges.append((v, w))
ReadEdge ==
    /\ lpc = "readEdges"
    /\ Len(edges) < rdE
    /\ LET r == ParseEdgeLine(ReadLine(file, lineNo)) IN
       /\ lineNo' = lineNo + 1
       /\ IF r.err # NoErr
          THEN /\ lpc' = "raised" /\ lerr' = r.err /\ edges' = edges
          ELSE /\ lpc' = lpc /\ lerr' = lerr /\ edges' = Append(edges, r.val)
    /\ UNCHANGED <<file, decl, cls, rdV, rdE, lg, idx>>
    /\ UNCHANGED graphVars

\* return edges, V; g = cls(V)
LoadNew ==
    /\ lpc = "readEdges"
    /\ Len(edges) = rdE
    /\ LET r == Construct(cls, rdV) IN
       IF r.err # NoErr
       THEN /\ lpc' = "raised" /\ lerr' = r.err /\ lg' = lg
       ELSE /\ lpc' = "adding" /\ lerr' = lerr /\ lg' = r.g
    /\ UNCHANGED <<file, decl, cls, rdV, rdE, edges, lineNo, idx>>
    /\ UNCHANGED graphVars

\* one iteration of: for edge in edges: g.add_edge(edge[0], edge[1])
LoadAddEdge ==
    /\ lpc = "adding"
    /\ idx < Len(edges)
    /\ LET r == add_edge(cls, lg, edges[idx + 1][1], edges[idx + 1][2]) IN
       IF r.err # NoErr
       THEN /\ lpc' = "raised" /\ lerr' = r.err /\ lg' = r.g /\ idx' = idx
       ELSE /\ lpc' = lpc /\ lerr' = lerr /\ lg' = r.g /\ idx' = idx + 1
    /\ UNCHANGED <<file, decl, cls, rdV, rdE, edges, lineNo>>
    /\ UNCHANGED graphVars

\* return g
LoadReturn ==
    /\ lpc = "adding"
    /\ idx = Len(edges)
    /\ lpc' = "returned"
    /\ UNCHANGED <<file, decl, cls, rdV, rdE, edges, lineNo, lg, idx, lerr>>
    /\ UNCHANGED graphVars

LoadNext == ReadV \/ ReadE \/ ReadEdge \/ LoadNew \/ LoadAddEdge \/ LoadReturn

SpecLoad == LoadInit /\ [][LoadNext]_vars

(***************************************************************************)
(* Vocabulary of the properties: counting over the histories.              *)
(***************************************************************************)
Vertices(gr) == Range(gr.V)

\* occurrences of x in the sequence s
Occ(s, x) == Cardinality({i \in DOMAIN s : s[i] = x})

\* completed calls add_edge(v, w), in that argument order
Completed(calls, v, w) == Occ(calls, <<v, w>>)

\* completed calls that inserted the edge {v, w}, in either argument order
Inserted(calls, v, w) ==
    Cardinality({i \in DOMAIN calls : calls[i] = <<v, w>> \/ calls[i] = <<w, v>>})

SelfLoopCalls(calls) == Cardinality({i \in DOMAIN calls : calls[i][1] = calls[i][2]})

\* no edge {v, w} was inserted twice
NoRepeat(calls) ==
    \A i, j \in DOMAIN calls :
        (i # j) => (calls[i] # calls[j] /\ calls[i] # <<calls[j][2], calls[j][1]>>)

MaxOf(S) == IF S = {} THEN 0 ELSE CHOOSE x \in S : \A y \in S : y <= x

\* the step just taken was an add_edge call of the driver
AddEdgeStep == lastOp' = "add_edge" /\ nCalls' = nCalls + 1

\* C1: add_edge(v, w) with an endpoint outside [0, vertexCount) fails with
\* the out-of-range error on both variants and changes neither edgeCount nor
\* any adjacency entry of the object it was called on.
C1_FailedAddEdgeNoMutation ==
    [][ (AddEdgeStep /\ ~(lastArgs'[1] \in Vertices(g) /\ lastArgs'[2] \in Vertices(g)))
        => /\ gLive => (gErr' = ValueError /\ g' = g /\ gCalls' = gCalls)
           /\ mLive => (mErr' = ValueError /\ m' = m /\ mCalls' = mCalls) ]_vars

C1_Witness ==
    /\ lastOp = "add_edge" /\ gLive /\ mLive
    /\ lastArgs[1] \in Vertices(g) /\ lastArgs[2] = g.V
    /\ gErr = ValueError /\ mErr = ValueError
    /\ g.E = 2 /\ m.E = 2

\* C2: edgeCount equals the number of add_edge calls that completed, whether
\* the edges were self-loops, repeats or new (both variants).
C2_EdgeCountIsCompletedCalls ==
    /\ gLive => g.E = Len(gCalls)
    /\ mLive => m.E = Len(mCalls)

C2_Witness ==
    /\ gLive /\ mLive /\ g.E = 3 /\ m.E = 3
    /\ gCalls[1] = gCalls[2] /\ gCalls[3][1] = gCalls[3][2]
    /\ gCalls[1][1] # gCalls[1][2]

\* C3: list variant: for distinct v, w the occurrences of w in v's list equal
\* those of v in w's list and the number of completed insertions of {v, w};
\* the occurrences of v in its own list equal the completed add_edge(v, v).
C3_ListMultiplicity ==
    gLive =>
        \A v \in Vertices(g), w \in Vertices(g) :
            IF v # w
            THEN /\ Occ(g.adj[v], w) = Occ(g.adj[w], v)
                 /\ Occ(g.adj[v], w) = Completed(gCalls, v, w) + Completed(gCalls, w, v)
            ELSE Occ(g.adj[v], v) = Completed(gCalls, v, v)

C3_Witness ==
    /\ gLive /\ g.V >= 2
    /\ Completed(gCalls, 0, 1) = 1 /\ Completed(gCalls, 1, 0) = 1
    /\ Completed(gCalls, 1, 1) = 1
    /\ Occ(g.adj[1], 0) = 2 /\ Occ(g.adj[1], 1) = 1

\* C4: list variant: a completed add_edge(v, w) raises degree(v) and
\* degree(w) by exactly 1 each when v # w, degree(v) by exactly 1 when v = w,
\* and leaves vertexCount and every other vertex's adjacency list unchanged.
C4_DegreeFrame ==
    [][ (AddEdgeStep /\ gLive /\ gErr' = NoErr)
        => LET v == lastArgs'[1]
               w == lastArgs'[2]
           IN  /\ ListDegree(g', v).val = ListDegree(g, v).val + 1
               /\ ListDegree(g', w).val = ListDegree(g, w).val + 1
               /\ g'.V = g.V
               /\ \A u \in Vertices(g) \ {v, w} :
                      /\ g'.adj[u] = g.adj[u]
                      /\ ListDegree(g', u) = ListDegree(g, u) ]_vars

C4_Witness ==
    /\ gLive /\ g.V = 3 /\ lastOp = "add_edge" /\ gErr = NoErr
    /\ gCalls = <<(<<0, 1>>), (<<2, 2>>), (<<1, 0>>)>>
    /\ ListDegree(g, 2).val = 1 /\ ListDegree(g, 0).val = 2

\* C5: selfLoopCount of the list variant is the number of completed
\* add_edge(v, v) calls; of the matrix variant, the number of distinct
\* vertices v with at least one completed add_edge(v, v).
C5_SelfLoopCount ==
    /\ gLive => ListSelfLoops(g) = SelfLoopCalls(gCalls)
    /\ mLive => MatrixSelfLoops(m) =
                   Cardinality({v \in Vertices(m) : Completed(mCalls, v, v) > 0})

C5_Witness ==
    /\ gLive /\ mLive
    /\ Completed(gCalls, 1, 1) = 2 /\ Completed(mCalls, 1, 1) = 2
    /\ ListSelfLoops(g) = 2 /\ MatrixSelfLoops(m) = 1

\* C6: constructing either variant with a negative vertex count fails, so
\* every live graph has 0 <= vertexCount.
C6_NegativeVertexCountRejected ==
    /\ (lastOp = "new" /\ lastArgs[1] < 0)
           => (~gLive /\ gErr # NoErr /\ ~mLive /\ mErr # NoErr)
    /\ gLive => g.V >= 0
    /\ mLive => m.V >= 0

\* C7: matrix variant: degree(v) is the number of distinct w (w = v included)
\* with a completed insertion of {v, w}; two identical add_edge(v, w) calls
\* give edgeCount 2 and degree(v) 1; the matrix is symmetric.
C7_MatrixDegreeDistinct ==
    mLive =>
        /\ \A v \in Vertices(m) :
               MatrixDegree(m, v).val =
                   Cardinality({w \in Vertices(m) : Inserted(mCalls, v, w) > 0})
        /\ \A v \in Vertices(m), w \in Vertices(m) : m.adj[v][w] = m.adj[w][v]
        /\ (Len(mCalls) = 2 /\ mCalls[1] = mCalls[2])
               => (m.E = 2 /\ MatrixDegree(m, mCalls[1][1]).val = 1)

C7_Witness ==
    /\ mLive /\ nCalls = 2
    /\ mCalls = <<(<<0, 2>>), (<<0, 2>>)>>
    /\ m.E = 2 /\ MatrixDegree(m, 0).val = 1 /\ MatrixDegree(m, 2).val = 1

\* C9: maxDegree equals the maximum of degree(v) over the vertices, and is 0
\* for a graph with no vertices or with isolated vertices only (both variants).
MaxDegreeIsMax(c, gr) ==
    /\ max_degree(c, gr) = MaxOf({degree(c, gr, v).val : v \in Vertices(gr)})
    /\ (gr.V = 0 \/ \A v \in Vertices(gr) : degree(c, gr, v).val = 0)
           => max_degree(c, gr) = 0

C9_MaxDegree ==
    /\ gLive => MaxDegreeIsMax(ListCls, g)
    /\ mLive => MaxDegreeIsMax(MatrixCls, m)

C9_Witness ==
    /\ gLive /\ mLive /\ g.V = 3
    /\ ListDegree(g, 0).val = 0 /\ ListDegree(g, 1).val = 1
    /\ max_degree(ListCls, g) = 3 /\ max_degree(MatrixCls, m) = 2

\* C10: a list graph and a matrix graph built with the same vertexCount and
\* driven by the same calls agree on the outcome of every call and on
\* edgeCount; matrix[v][w] holds exactly when w occurs in the list of v, whose
\* entries are all valid vertices; hence matrix degree and selfLoopCount are
\* at most the list variant's, with equality when no edge was inserted twice.
C10_VariantsAgree ==
    (gLive /\ mLive /\ g.V = m.V) =>
        /\ gErr = mErr
        /\ gCalls = mCalls
        /\ g.E = m.E
        /\ \A v \in Vertices(g) :
               /\ \A i \in DOMAIN g.adj[v] : g.adj[v][i] \in Vertices(g)
               /\ \A w \in Vertices(g) : m.adj[v][w] <=> (Occ(g.adj[v], w) > 0)
               /\ MatrixDegree(m, v).val <= ListDegree(g, v).val
               /\ NoRepeat(gCalls) => MatrixDegree(m, v).val = ListDegree(g, v).val
        /\ MatrixSelfLoops(m) <= ListSelfLoops(g)
        /\ NoRepeat(gCalls) => MatrixSelfLoops(m) = ListSelfLoops(g)

C10_Witness ==
    /\ gLive /\ mLive /\ g.V = m.V /\ nCalls = 3
    /\ lastOp = "add_edge" /\ gErr = ValueError /\ mErr = ValueError
    /\ gCalls = <<(<<1, 2>>), (<<2, 1>>)>>
    /\ MatrixDegree(m, 1).val = 1 /\ ListDegree(g, 1).val = 2

\* the graph after add_edge was called on the first k edges of es, in order
RECURSIVE ApplyEdges(_, _, _, _)
ApplyEdges(c, gr, es, k) ==
    IF k = 0 THEN gr
    ELSE add_edge(c, ApplyEdges(c, gr, es, k - 1), es[k][1], es[k][2]).g

MinOf(S) == CHOOSE x \in S : \A y \in S : x <= y

\* C8: load on a source declaring V vertices and edges e1..eE returns the
\* empty graph on V vertices after add_edge on e1..eE in order (edgeCount E,
\* same neighbour order); with V or E negative, or an edge endpoint outside
\* [0, V), it fails and returns no graph, no edge after the failing one
\* having been inserted.
C8_LoadIsAddEdgeInOrder ==
    LET es == IF decl.E >= 0 /\ Len(decl.edges) >= decl.E
              THEN SubSeq(decl.edges, 1, decl.E) ELSE <<>>
        bad == {k \in DOMAIN es : ~(es[k][1] \in Range(decl.V) /\ es[k][2] \in Range(decl.V))}
        Expected(k) == ApplyEdges(cls, Construct(cls, decl.V).g, es, k)
        failed == lpc = "raised" /\ lerr = ValueError
    IN  /\ decl.V < 0 => (lpc = "readV" \/ (failed /\ lg = NoGraph))
        /\ (decl.V >= 0 /\ decl.E < 0)
               => (lpc \in {"readV", "readE"} \/ (failed /\ lg = NoGraph))
        /\ (decl.V >= 0 /\ decl.E >= 0 /\ Len(decl.edges) >= decl.E) =>
               IF bad = {}
               THEN /\ lpc # "raised"
                    /\ lpc = "returned" =>
                           (lg = Expected(decl.E) /\ lg.V = decl.V /\ lg.E = decl.E)
               ELSE /\ lpc # "returned"
                    /\ lpc \in {"adding", "raised"} =>
                           (idx < MinOf(bad) /\ lg = Expected(idx))
                    /\ lpc = "raised" =>
                           (failed /\ idx = MinOf(bad) - 1 /\ lg.E = MinOf(bad) - 1)

C8_Witness ==
    /\ lpc = "returned" /\ cls = ListCls
    /\ decl.V = BigV /\ decl.E = 2 /\ Len(file) = 4
    /\ lg.V = BigV /\ lg.E = 2
    /\ lg.adj[0] = <<1, 0>> /\ lg.adj[1] = <<0>>

====
